---- MODULE Spec2Model ----
(***************************************************************************)
(* Model of the target-list generator's enrichment core:                   *)
(*   - quality-validator.ts  (validateSummaryQuality, rateSummaryQuality)  *)
(*   - claude.ts             (generateCompanySummary, processCompanies)    *)
(*   - logo-fetcher.ts       (fetchCompanyLogo, batchFetchLogos)           *)
(*                                                                         *)
(* Text is modelled as a sequence of chunks.  A chunk [t, w] is a run of   *)
(* w characters whose content is named by the token t; a "fill"/"Fill"     *)
(* chunk is a run of plain letters that contains none of the phrases the   *)
(* code searches for.  The length of a text is the sum of its widths.      *)
(***************************************************************************)
EXTENDS Integers, Sequences, FiniteSets, TLC

VARIABLES
  q,            \* quality evaluator: one evaluation (input, verdict, rating)
  ini,          \* getCompanyInitials / generateInitialsLogo: one application
  companies,    \* processCompanies: the input rows
  i,            \* processCompanies: loop index (1-based)
  pcA,          \* position of processCompanies / generateCompanySummary
  retryCount,   \* generateCompanySummary: the retryCount parameter
  curSummary,   \* generateCompanySummary: its local summary (candidate awaiting refinement)
  results,      \* processCompanies: the records pushed so far
  calls,        \* history: generation calls issued for the current row
  rowLog,       \* history: the calls, answers and sleeps of the current row
  logoItems,    \* batchFetchLogos: the companies argument ({domain, companyName})
  concurrency,  \* batchFetchLogos: the concurrency argument
  queue,        \* batchFetchLogos: queue (indices into logoItems)
  batch,        \* batchFetchLogos: the window being awaited
  fetchPc,      \* per item: position of its fetchCompanyLogo invocation
  fetchResult,  \* per item: the LogoResult its invocation resolved with
  logoResults,  \* batchFetchLogos: results, the Map from display name to LogoResult
  completed,    \* batchFetchLogos: completed
  progress,     \* history: the (current, total) pairs passed to onProgress
  pcB,          \* position of batchFetchLogos
  windowOf,     \* history: per item, the number of the window that started it
  tierLog,      \* history: per item, the tiers its invocation has finished with
  merged        \* processCompaniesAction: the records after the logos are attached

varsQ == <<q>>
varsA == <<companies, i, pcA, retryCount, curSummary, results, calls, rowLog>>
varsB == <<logoItems, concurrency, queue, batch, fetchPc, fetchResult, logoResults,
           completed, progress, pcB, windowOf, tierLog, merged>>
vars == <<q, ini, companies, i, pcA, retryCount, curSummary, results, calls, rowLog,
          logoItems, concurrency, queue, batch, fetchPc, fetchResult, logoResults,
          completed, progress, pcB, windowOf, tierLog, merged>>

----------------------------------------------------------------------------
(* Text layer *)

Chunk(t, w) == [t |-> t, w |-> w]

\* the empty string
NoText == <<>>

\* String.prototype.toLowerCase on one chunk
TokLower(t) ==
  CASE t = "Acme"  -> "acme"
    [] t = "Acme Widgets" -> "acme widgets"
    [] t = "Bolt"  -> "bolt"
    [] t = " Inc." -> " inc."
    [] t = " Corp" -> " corp"
    [] t = "Fill"  -> "fill"
    [] t = "HVAC"  -> "hvac"
    [] OTHER       -> t

\* the tokens that occur inside a chunk's characters (besides the chunk itself)
TokSub(t) ==
  CASE t = "etc."  -> {"etc", "."}
    [] t = "..."   -> {"."}
    [] t = " Inc." -> {"."}
    [] t = " inc." -> {"."}
    [] t = "Acme Widgets" -> {"Acme"}
    [] t = "acme widgets" -> {"acme"}
    [] OTHER       -> {}

\* the chunk's last character is a period
TokEndsDot(t) == t \in {".", "...", "etc.", " Inc.", " inc."}

\* the chunk's first character equals its own upper-case form
TokFirstIsUpper(t) ==
  t \notin { "acme", "bolt", "fill", "hvac", "bi", "etc", "etc.", "acme widgets",
             "precision tooling", "rapid prototyping" }

ToLowerCase(s) == [k \in 1..Len(s) |-> Chunk(TokLower(s[k].t), s[k].w)]

RECURSIVE StrLen(_)
StrLen(s) == IF s = <<>> THEN 0 ELSE s[1].w + StrLen(Tail(s))

\* String.prototype.includes
Includes(s, needle) ==
  \/ needle = <<>>
  \/ /\ Len(needle) = 1
     /\ \E k \in 1..Len(s) : s[k].t = needle[1].t \/ needle[1].t \in TokSub(s[k].t)
  \/ /\ Len(needle) > 1
     /\ \E k \in 1..(Len(s) - Len(needle) + 1) :
          \A j \in 1..Len(needle) : s[k + j - 1] = needle[j]

IsSpace(c) == c.t = " "

\* String.prototype.trim
RECURSIVE TrimLeft(_)
TrimLeft(s) == IF s # <<>> /\ IsSpace(s[1]) THEN TrimLeft(Tail(s)) ELSE s

RECURSIVE TrimRight(_)
TrimRight(s) ==
  IF s # <<>> /\ IsSpace(s[Len(s)]) THEN TrimRight(SubSeq(s, 1, Len(s) - 1)) ELSE s

Trim(s) == TrimRight(TrimLeft(s))

\* s.split(',') : the pieces between the "," chunks
RECURSIVE SplitComma(_)
SplitComma(s) ==
  IF \E k \in 1..Len(s) : s[k].t = ","
  THEN LET k == CHOOSE k \in 1..Len(s) :
                  s[k].t = "," /\ \A j \in 1..(k - 1) : s[j].t # ","
       IN <<SubSeq(s, 1, k - 1)>> \o SplitComma(SubSeq(s, k + 1, Len(s)))
  ELSE <<s>>

EndsWithDot(s) == s # <<>> /\ TokEndsDot(s[Len(s)].t)

\* summary.charAt(0) === summary.charAt(0).toUpperCase()
FirstCharIsUpper(s) == s = <<>> \/ TokFirstIsUpper(s[1].t)

\* one chunk token occurs in s
IncludesTok(s, t) == \E k \in 1..Len(s) : s[k].t = t \/ t \in TokSub(s[k].t)

\* Array.prototype.filter on a sequence
RECURSIVE SelectTexts(_, _)
SelectTexts(seq, minLen) ==
  IF seq = <<>> THEN <<>>
  ELSE (IF StrLen(seq[1]) > minLen THEN <<seq[1]>> ELSE <<>>)
         \o SelectTexts(Tail(seq), minLen)

\* contiguous containment of a word sequence in an issue message
IssueIncludes(issue, needle) ==
  \E k \in 1..(Len(issue) - Len(needle) + 1) :
    \A j \in 1..Len(needle) : issue[k + j - 1] = needle[j]

----------------------------------------------------------------------------
(* quality-validator.ts *)

MIN_LEN == 180
MAX_LEN == 280
IDEAL_MIN == 200
IDEAL_MAX == 250

GENERIC_PHRASES ==
  << "leading provider", "innovative solutions", "cutting-edge",
     "state-of-the-art", "world-class", "industry leader", "premier provider",
     "trusted partner", "comprehensive solutions", "full-service",
     "one-stop shop", "best-in-class" >>

TRUNCATION_INDICATORS == << "...", "etc.", "etc", " and more" >>

VAGUE_PHRASES ==
  << "various services", "multiple solutions", "different products",
     "wide range", "diverse offerings" >>

\* the legal-entity suffixes of /\s+(inc|incorporated|llc|ltd|corp|corporation)\.?$/i,
\* each chunk holding the leading white space, the word and the optional period
NameSuffixTokens == {" Inc.", " inc.", " Corp", " corp"}

StripNameSuffix(s) ==
  IF s # <<>> /\ s[Len(s)].t \in NameSuffixTokens
  THEN SubSeq(s, 1, Len(s) - 1)
  ELSE s

CompanyNameCore(companyName) ==
  ToLowerCase(Trim(StripNameSuffix(SplitComma(companyName)[1])))

\* the issue messages, as word sequences
IssueTooShort == <<"Too", "short", "(N", "chars,", "need", "180-280)">>
IssueTooLong == <<"Too", "long", "(N", "chars,", "max", "280)">>
IssueNotIdeal ==
  <<"Length", "acceptable", "but", "outside", "ideal", "range", "(N", "chars,",
    "ideal", "200-250)">>
IssueMissingName == <<"Missing", "company", "name">>
IssueGeneric(found) == <<"Contains", "generic", "phrases:">> \o found
IssueNoTerms ==
  <<"Lacks", "industry-specific", "terminology", "from", "specialties">>
IssueNoCapital == <<"Does", "not", "start", "with", "capital", "letter">>
IssueNoPeriod == <<"Does", "not", "end", "with", "period">>
IssueTruncated ==
  <<"Appears", "to", "be", "truncated", "(contains", "\"...\",", "\"etc.\",",
    "or", "\"and", "more\")">>
IssueVague ==
  <<"Contains", "vague", "descriptions", "instead", "of", "specific", "offerings">>

RECURSIVE FoundPhrases(_, _)
FoundPhrases(phrases, s) ==
  IF phrases = <<>> THEN <<>>
  ELSE (IF IncludesTok(s, phrases[1]) THEN <<phrases[1]>> ELSE <<>>)
         \o FoundPhrases(Tail(phrases), s)

SpecialtyTerms(specialties) ==
  LET parts == SplitComma(ToLowerCase(specialties))
      trimmed == [k \in 1..Len(parts) |-> Trim(parts[k])]
  IN SelectTexts(trimmed, 3)

\* variant: the filter of critical issues forgets the truncation message
IsCriticalNoTruncation(issue) ==
  \/ IssueIncludes(issue, <<"Too", "short">>)
  \/ IssueIncludes(issue, <<"Too", "long">>)
  \/ IssueIncludes(issue, <<"Missing", "company", "name">>)

\* issue.includes('Too short') || ... || issue.includes('truncated')
IsCritical(issue) ==
  \/ IssueIncludes(issue, <<"Too", "short">>)
  \/ IssueIncludes(issue, <<"Too", "long">>)
  \/ IssueIncludes(issue, <<"Missing", "company", "name">>)
  \/ IssueIncludes(issue, <<"truncated">>)

validateSummaryQuality(summary, companyName, specialties) ==
  LET length == StrLen(summary)
      lengthValid == length >= MIN_LEN /\ length <= MAX_LEN
      issues1 ==
        IF ~lengthValid
        THEN (IF length < MIN_LEN THEN <<IssueTooShort>> ELSE <<IssueTooLong>>)
        ELSE IF length < IDEAL_MIN \/ length > IDEAL_MAX
             THEN <<IssueNotIdeal>>
             ELSE <<>>
      normalizedSummary == ToLowerCase(summary)
      normalizedCompanyName == ToLowerCase(companyName)
      companyNameCore == CompanyNameCore(companyName)
      hasCompanyName ==
        \/ Includes(normalizedSummary, normalizedCompanyName)
        \/ Includes(normalizedSummary, companyNameCore)
      issues2 == IF ~hasCompanyName THEN <<IssueMissingName>> ELSE <<>>
      foundPhrases == FoundPhrases(GENERIC_PHRASES, normalizedSummary)
      hasGenericPhrases == foundPhrases # <<>>
      issues3 == IF hasGenericPhrases THEN <<IssueGeneric(foundPhrases)>> ELSE <<>>
      specialtyTerms == SpecialtyTerms(specialties)
      hasIndustryTerms ==
        /\ specialties # <<>>
        /\ \E k \in 1..Len(specialtyTerms) :
             Includes(normalizedSummary, specialtyTerms[k])
      issues4 ==
        IF specialties # <<>> /\ ~hasIndustryTerms /\ Len(specialtyTerms) > 0
        THEN <<IssueNoTerms>>
        ELSE <<>>
      isProperlyFormatted == FirstCharIsUpper(summary) /\ EndsWithDot(summary)
      issues5 ==
        IF ~isProperlyFormatted
        THEN (IF ~FirstCharIsUpper(summary) THEN <<IssueNoCapital>> ELSE <<>>)
               \o (IF ~EndsWithDot(summary) THEN <<IssueNoPeriod>> ELSE <<>>)
        ELSE <<>>
      isTruncated ==
        \E k \in 1..Len(TRUNCATION_INDICATORS) :
          IncludesTok(summary, TRUNCATION_INDICATORS[k])
      issues6 == IF isTruncated THEN <<IssueTruncated>> ELSE <<>>
      isVague ==
        \E k \in 1..Len(VAGUE_PHRASES) : IncludesTok(normalizedSummary, VAGUE_PHRASES[k])
      issues7 == IF isVague THEN <<IssueVague>> ELSE <<>>
      issues == issues1 \o issues2 \o issues3 \o issues4 \o issues5 \o issues6 \o issues7
      criticalIssues == SelectSeq(issues, IsCritical)
  IN [ passed |-> Len(criticalIssues) = 0,
       issues |-> issues,
       length |-> length,
       hasCompanyName |-> hasCompanyName,
       hasGenericPhrases |-> hasGenericPhrases,
       hasIndustryTerms |-> hasIndustryTerms,
       isProperlyFormatted |-> isProperlyFormatted,
       isTruncated |-> isTruncated ]

\* pieces.join(', ')
RECURSIVE JoinCommaSpace(_)
JoinCommaSpace(pieces) ==
  IF pieces = <<>> THEN <<>>
  ELSE IF Len(pieces) = 1 THEN pieces[1]
       ELSE pieces[1] \o <<Chunk(",", 1), Chunk(" ", 1)>> \o JoinCommaSpace(Tail(pieces))

\* array.slice(0, n)
Slice0(seq, n) == SubSeq(seq, 1, IF Len(seq) < n THEN Len(seq) ELSE n)

\* one line of the PROBLEMS list: the instruction and the text it embeds
Problem(fix, arg) == [fix |-> fix, arg |-> arg]

\* variant: the instruction about generic phrases is left out
generateRefinementPromptNoGenericLine(originalSummary, qualityCheck, companyName, specialties) ==
  [ original |-> originalSummary,
    problems |->
      (IF ~qualityCheck.hasCompanyName
       THEN <<Problem("Must include the full company name", companyName)>> ELSE <<>>)
      \o (IF ~qualityCheck.hasIndustryTerms /\ specialties # <<>>
          THEN << Problem("Include specific terminology from their specialties",
                          JoinCommaSpace(Slice0(SplitComma(specialties), 3))) >>
          ELSE <<>>)
      \o (IF qualityCheck.length < MIN_LEN
          THEN <<Problem("Expand to at least 180 characters", NoText)>> ELSE <<>>)
      \o (IF qualityCheck.length > MAX_LEN
          THEN <<Problem("Shorten to maximum 280 characters", NoText)>> ELSE <<>>)
      \o (IF ~qualityCheck.isProperlyFormatted
          THEN <<Problem("Start with capital letter and end with period", NoText)>>
          ELSE <<>>)
      \o (IF qualityCheck.isTruncated
          THEN <<Problem("Do not truncate", NoText)>> ELSE <<>>) ]

\* variant: the instruction about truncation is left out
generateRefinementPromptNoTruncateLine(originalSummary, qualityCheck, companyName, specialties) ==
  [ original |-> originalSummary,
    problems |->
      (IF ~qualityCheck.hasCompanyName
       THEN <<Problem("Must include the full company name", companyName)>> ELSE <<>>)
      \o (IF qualityCheck.hasGenericPhrases
          THEN <<Problem("Remove generic marketing phrases", NoText)>> ELSE <<>>)
      \o (IF ~qualityCheck.hasIndustryTerms /\ specialties # <<>>
          THEN << Problem("Include specific terminology from their specialties",
                          JoinCommaSpace(Slice0(SplitComma(specialties), 3))) >>
          ELSE <<>>)
      \o (IF qualityCheck.length < MIN_LEN
          THEN <<Problem("Expand to at least 180 characters", NoText)>> ELSE <<>>)
      \o (IF qualityCheck.length > MAX_LEN
          THEN <<Problem("Shorten to maximum 280 characters", NoText)>> ELSE <<>>)
      \o (IF ~qualityCheck.isProperlyFormatted
          THEN <<Problem("Start with capital letter and end with period", NoText)>>
          ELSE <<>>) ]

\* generateRefinementPrompt: the quoted summary and the PROBLEMS lines
generateRefinementPrompt(originalSummary, qualityCheck, companyName, specialties) ==
  [ original |-> originalSummary,
    problems |->
      (IF ~qualityCheck.hasCompanyName
       THEN <<Problem("Must include the full company name", companyName)>> ELSE <<>>)
      \o (IF qualityCheck.hasGenericPhrases
          THEN <<Problem("Remove generic marketing phrases", NoText)>> ELSE <<>>)
      \o (IF ~qualityCheck.hasIndustryTerms /\ specialties # <<>>
          THEN << Problem("Include specific terminology from their specialties",
                          JoinCommaSpace(Slice0(SplitComma(specialties), 3))) >>
          ELSE <<>>)
      \o (IF qualityCheck.length < MIN_LEN
          THEN <<Problem("Expand to at least 180 characters", NoText)>> ELSE <<>>)
      \o (IF qualityCheck.length > MAX_LEN
          THEN <<Problem("Shorten to maximum 280 characters", NoText)>> ELSE <<>>)
      \o (IF ~qualityCheck.isProperlyFormatted
          THEN <<Problem("Start with capital letter and end with period", NoText)>>
          ELSE <<>>)
      \o (IF qualityCheck.isTruncated
          THEN <<Problem("Do not truncate", NoText)>> ELSE <<>>) ]

\* variant: the "good" tier forgets to require passed
rateSummaryQualityGoodWithoutPassed(qualityCheck) ==
  IF /\ qualityCheck.passed
     /\ qualityCheck.length >= IDEAL_MIN
     /\ qualityCheck.length <= IDEAL_MAX
     /\ qualityCheck.hasCompanyName
     /\ ~qualityCheck.hasGenericPhrases
     /\ qualityCheck.hasIndustryTerms
     /\ qualityCheck.isProperlyFormatted
     /\ ~qualityCheck.isTruncated
  THEN "excellent"
  ELSE IF qualityCheck.hasCompanyName /\ ~qualityCheck.isTruncated
       THEN "good"
       ELSE "needs_review"

rateSummaryQuality(qualityCheck) ==
  IF /\ qualityCheck.passed
     /\ qualityCheck.length >= IDEAL_MIN
     /\ qualityCheck.length <= IDEAL_MAX
     /\ qualityCheck.hasCompanyName
     /\ ~qualityCheck.hasGenericPhrases
     /\ qualityCheck.hasIndustryTerms
     /\ qualityCheck.isProperlyFormatted
     /\ ~qualityCheck.isTruncated
  THEN "excellent"
  ELSE IF /\ qualityCheck.passed
          /\ qualityCheck.hasCompanyName
          /\ ~qualityCheck.isTruncated
       THEN "good"
       ELSE "needs_review"

----------------------------------------------------------------------------
(* Inputs of the quality evaluator *)

NameAcmeInc == <<Chunk("Acme", 4), Chunk(",", 1), Chunk(" Inc.", 5)>>
NameBoltCorp == <<Chunk("Bolt", 4), Chunk(" Corp", 5)>>
SpecHvac == <<Chunk("HVAC", 4)>>
SpecShortOnly == <<Chunk("bi", 2)>>
SpecTwo == <<Chunk("bi", 2), Chunk(",", 1), Chunk(" ", 1), Chunk("hvac", 4)>>

\* a candidate of exactly len characters: head, filler, tail
Candidate(head, tail, len) ==
  LET fixed == StrLen(head) + StrLen(tail)
  IN IF len > fixed
     THEN head \o <<Chunk("fill", len - fixed)>> \o tail
     ELSE head \o tail

Idle == [pc |-> "idle"]

QNames == {NameAcmeInc, NameBoltCorp, NoText}
QSpecialties == {NoText, SpecHvac, SpecShortOnly, SpecTwo}
QLengths == {0, 179, 180, 199, 200, 250, 251, 280, 281}
QHeads ==
  { NoText,
    NameAcmeInc,
    <<Chunk("Acme", 4)>>,
    <<Chunk("acme", 4)>>,
    <<Chunk("Bolt", 4), Chunk(" Corp", 5)>>,
    <<Chunk("Fill", 9)>> }
QTails ==
  { NoText,
    <<Chunk(".", 1)>>,
    <<Chunk("hvac", 4), Chunk(".", 1)>>,
    <<Chunk("leading provider", 16), Chunk("hvac", 4), Chunk(".", 1)>>,
    <<Chunk("wide range", 10), Chunk(".", 1)>>,
    <<Chunk("...", 3)>>,
    <<Chunk("etc", 3), Chunk("hvac", 4), Chunk(".", 1)>>,
    <<Chunk(" and more", 9), Chunk(".", 1)>> }

QCandidates == { Candidate(h, t, n) : h \in QHeads, t \in QTails, n \in QLengths }

InitI0 == ini = [pc |-> "idle"]

InitA0 ==
  /\ companies = <<>>
  /\ i = 0
  /\ pcA = "idle"
  /\ retryCount = 0
  /\ curSummary = NoText
  /\ results = <<>>
  /\ calls = 0
  /\ rowLog = [on |-> FALSE, events |-> <<>>]

InitB0 ==
  /\ logoItems = <<>>
  /\ concurrency = 0
  /\ queue = <<>>
  /\ batch = <<>>
  /\ fetchPc = <<>>
  /\ fetchResult = <<>>
  /\ logoResults = <<>>
  /\ completed = 0
  /\ progress = <<>>
  /\ pcB = "idle"
  /\ windowOf = <<>>
  /\ tierLog = <<>>
  /\ merged = <<>>

InitQ ==
  /\ q \in { [pc |-> "input", summary |-> s, companyName |-> n, specialties |-> sp] :
               s \in QCandidates, n \in QNames, sp \in QSpecialties }
  /\ InitI0
  /\ InitA0
  /\ InitB0

\* validateSummaryQuality(summary, companyName, specialties)
Validate ==
  /\ q.pc = "input"
  /\ q' = [ pc |-> "validated", summary |-> q.summary, companyName |-> q.companyName,
            specialties |-> q.specialties,
            verdict |-> validateSummaryQuality(q.summary, q.companyName, q.specialties) ]
  /\ UNCHANGED <<ini, varsA, varsB>>

\* rateSummaryQuality(qualityCheck)
Rate ==
  /\ q.pc = "validated"
  /\ q' = [ pc |-> "rated", summary |-> q.summary, companyName |-> q.companyName,
            specialties |-> q.specialties, verdict |-> q.verdict,
            rating |-> rateSummaryQuality(q.verdict) ]
  /\ UNCHANGED <<ini, varsA, varsB>>

\* generateRefinementPrompt(summary, qualityCheck, companyName, specialties)
BuildRefinementPrompt ==
  /\ q.pc = "rated"
  /\ q' = [ pc |-> "prompted", summary |-> q.summary, companyName |-> q.companyName,
            specialties |-> q.specialties, verdict |-> q.verdict,
            rating |-> q.rating,
            prompt |-> generateRefinementPrompt(q.summary, q.verdict, q.companyName,
                                                q.specialties) ]
  /\ UNCHANGED <<ini, varsA, varsB>>

NextQ == Validate \/ Rate \/ BuildRefinementPrompt

SpecQ == InitQ /\ [][NextQ]_vars

----------------------------------------------------------------------------
(* claude.ts *)

MAX_RETRIES == 3
FALLBACK_CHARS == 150

\* s.substring(0, n) : the first n characters
RECURSIVE Substring0(_, _)
Substring0(s, n) ==
  IF s = <<>> \/ n <= 0 THEN <<>>
  ELSE IF s[1].w <= n
       THEN <<s[1]>> \o Substring0(Tail(s), n - s[1].w)
       ELSE <<Chunk(s[1].t, n)>>

IsAsterisk(c) == c.t = "*"
NotAsterisk(c) == ~IsAsterisk(c)
IsQuote(c) == c.t = "Q"

\* summary.substring(1, summary.length - 1), on a text that starts and ends
\* with a one-character quote chunk (substring swaps its arguments when the
\* first exceeds the second, so a lone quote is returned unchanged)
StripWrappingQuotes(s) ==
  IF Len(s) >= 2 THEN SubSeq(s, 2, Len(s) - 1) ELSE s

\* extractSummary(content): the response is [kind |-> "text", text |-> ...] or
\* [kind |-> "notext"]; ok = FALSE stands for the thrown Error
extractSummary(content) ==
  IF content.kind # "text" \/ content.text = <<>>
  THEN [ok |-> FALSE, message |-> "No text content in API response"]
  ELSE LET trimmed == Trim(content.text)
           unmarked == SelectSeq(trimmed, NotAsterisk)
           unquoted ==
             IF unmarked # <<>> /\ IsQuote(unmarked[1]) /\ IsQuote(unmarked[Len(unmarked)])
             THEN StripWrappingQuotes(unmarked)
             ELSE unmarked
       IN [ok |-> TRUE, summary |-> unquoted]

\* variant: the catch block tests retryCount <= MAX_RETRIES
CatchHandlerOffByOne(company, rc, error) ==
  IF error.status = 429 /\ rc <= MAX_RETRIES
  THEN [kind |-> "backoff", ms |-> 5000]
  ELSE IF error.status = 529 /\ rc <= MAX_RETRIES
       THEN [kind |-> "backoff", ms |-> 10000]
       ELSE [ kind |-> "return",
              result |->
                [ summary |-> Substring0(company.Description, FALLBACK_CHARS)
                                \o <<Chunk("...", 3)>>,
                  quality |-> "needs_review",
                  retries |-> rc,
                  error |-> error.message ] ]

\* variant: the two backoff durations are exchanged
CatchHandlerSwapsBackoff(company, rc, error) ==
  IF error.status = 429 /\ rc < MAX_RETRIES
  THEN [kind |-> "backoff", ms |-> 10000]
  ELSE IF error.status = 529 /\ rc < MAX_RETRIES
       THEN [kind |-> "backoff", ms |-> 5000]
       ELSE [ kind |-> "return",
              result |->
                [ summary |-> Substring0(company.Description, FALLBACK_CHARS)
                                \o <<Chunk("...", 3)>>,
                  quality |-> "needs_review",
                  retries |-> rc,
                  error |-> error.message ] ]

\* variant: the error result counts the failed call as one more retry
CatchHandlerFallbackCounts(company, rc, error) ==
  IF error.status = 429 /\ rc < MAX_RETRIES
  THEN [kind |-> "backoff", ms |-> 5000]
  ELSE IF error.status = 529 /\ rc < MAX_RETRIES
       THEN [kind |-> "backoff", ms |-> 10000]
       ELSE [ kind |-> "return",
              result |->
                [ summary |-> Substring0(company.Description, FALLBACK_CHARS)
                                \o <<Chunk("...", 3)>>,
                  quality |-> "needs_review",
                  retries |-> rc + 1,
                  error |-> error.message ] ]

\* variant: the catch block rethrows what it does not retry
CatchHandlerRethrows(company, rc, error) ==
  IF error.status = 429 /\ rc < MAX_RETRIES
  THEN [kind |-> "backoff", ms |-> 5000]
  ELSE IF error.status = 529 /\ rc < MAX_RETRIES
       THEN [kind |-> "backoff", ms |-> 10000]
       ELSE [kind |-> "throw"]

\* the catch block of generateCompanySummary: back off and recurse, or return
\* the error result (kind "throw" stands for an exception leaving the function)
CatchHandler(company, rc, error) ==
  IF error.status = 429 /\ rc < MAX_RETRIES
  THEN [kind |-> "backoff", ms |-> 5000]
  ELSE IF error.status = 529 /\ rc < MAX_RETRIES
       THEN [kind |-> "backoff", ms |-> 10000]
       ELSE [ kind |-> "return",
              result |->
                [ summary |-> Substring0(company.Description, FALLBACK_CHARS)
                                \o <<Chunk("...", 3)>>,
                  quality |-> "needs_review",
                  retries |-> rc,
                  error |-> error.message ] ]

\* what the service call settles with, as seen by the try block: a thrown
\* API error, or the content of the message
ThrownBy(resp) ==
  IF resp.kind = "error"
  THEN [thrown |-> TRUE, error |-> [status |-> resp.status, message |-> "API error"]]
  ELSE IF ~extractSummary(resp).ok
       THEN [ thrown |-> TRUE,
              error |-> [status |-> 0, message |-> extractSummary(resp).message] ]
       ELSE [thrown |-> FALSE]

\* variant: the first candidate is returned whatever its verdict
AfterInitialCallAcceptsAll(company, rc, resp) ==
  IF ThrownBy(resp).thrown
  THEN CatchHandler(company, rc, ThrownBy(resp).error)
  ELSE LET text == extractSummary(resp).summary
           qualityCheck ==
             validateSummaryQuality(text, company.CompanyName, company.Specialties)
       IN [ kind |-> "return",
            result |-> [ summary |-> text,
                         quality |-> rateSummaryQuality(qualityCheck),
                         retries |-> rc ] ]

\* generateCompanySummary from the settlement of the first call to the next
\* await or return (lines 317-332 and 387-418)
AfterInitialCall(company, rc, resp) ==
  IF ThrownBy(resp).thrown
  THEN CatchHandler(company, rc, ThrownBy(resp).error)
  ELSE LET text == extractSummary(resp).summary
           qualityCheck ==
             validateSummaryQuality(text, company.CompanyName, company.Specialties)
       IN IF ~qualityCheck.passed /\ rc < MAX_RETRIES
          THEN [kind |-> "refine", summary |-> text]
          ELSE [ kind |-> "return",
                 result |-> [ summary |-> text,
                              quality |-> rateSummaryQuality(qualityCheck),
                              retries |-> rc ] ]

\* variant: a refined candidate that fails with the budget spent is replaced
\* by the truncated description
AfterRefinementCallFallsBack(company, rc, resp) ==
  IF ThrownBy(resp).thrown
  THEN CatchHandler(company, rc, ThrownBy(resp).error)
  ELSE LET refinedSummary == extractSummary(resp).summary
           refinedQualityCheck ==
             validateSummaryQuality(refinedSummary, company.CompanyName,
                                    company.Specialties)
       IN IF ~refinedQualityCheck.passed /\ rc + 1 < MAX_RETRIES
          THEN [kind |-> "recurse"]
          ELSE [ kind |-> "return",
                 result |-> [ summary |->
                                IF refinedQualityCheck.passed
                                THEN refinedSummary
                                ELSE Substring0(company.Description, FALLBACK_CHARS)
                                       \o <<Chunk("...", 3)>>,
                              quality |-> rateSummaryQuality(refinedQualityCheck),
                              retries |-> rc + 1 ] ]

\* variant: the refined result is returned with retries: retryCount
AfterRefinementCallSameCount(company, rc, resp) ==
  IF ThrownBy(resp).thrown
  THEN CatchHandler(company, rc, ThrownBy(resp).error)
  ELSE LET refinedSummary == extractSummary(resp).summary
           refinedQualityCheck ==
             validateSummaryQuality(refinedSummary, company.CompanyName,
                                    company.Specialties)
       IN IF ~refinedQualityCheck.passed /\ rc + 1 < MAX_RETRIES
          THEN [kind |-> "recurse"]
          ELSE [ kind |-> "return",
                 result |-> [ summary |-> refinedSummary,
                              quality |-> rateSummaryQuality(refinedQualityCheck),
                              retries |-> rc ] ]

\* generateCompanySummary from the settlement of the refinement call to the
\* recursive call or return (lines 363-385 and 395-418)
AfterRefinementCall(company, rc, resp) ==
  IF ThrownBy(resp).thrown
  THEN CatchHandler(company, rc, ThrownBy(resp).error)
  ELSE LET refinedSummary == extractSummary(resp).summary
           refinedQualityCheck ==
             validateSummaryQuality(refinedSummary, company.CompanyName,
                                    company.Specialties)
       IN IF ~refinedQualityCheck.passed /\ rc + 1 < MAX_RETRIES
          THEN [kind |-> "recurse"]
          ELSE [ kind |-> "return",
                 result |-> [ summary |-> refinedSummary,
                              quality |-> rateSummaryQuality(refinedQualityCheck),
                              retries |-> rc + 1 ] ]

\* a web address is a character string: a sequence of one-character strings
StrStartsWith(s, prefix) ==
  Len(s) >= Len(prefix) /\ SubSeq(s, 1, Len(prefix)) = prefix

\* s.replace(/^prefix/, '')
StrDropPrefix(s, prefix) ==
  IF StrStartsWith(s, prefix) THEN SubSeq(s, Len(prefix) + 1, Len(s)) ELSE s

\* s.split(c)[0]
StrBefore(s, c) ==
  IF \E k \in 1..Len(s) : s[k] = c
  THEN SubSeq(s, 1, (CHOOSE k \in 1..Len(s) :
                       s[k] = c /\ \A j \in 1..(k - 1) : s[j] # c) - 1)
  ELSE s

PrefixHttp == <<"h", "t", "t", "p", ":", "/", "/">>
PrefixHttps == <<"h", "t", "t", "p", "s", ":", "/", "/">>
PrefixWww == <<"w", "w", "w", ".">>

\* extractDomain(website): protocol and www. removed, cut at '/' and at '?'
extractDomain(website) ==
  IF website = <<>> THEN <<>>
  ELSE LET d1 == IF StrStartsWith(website, PrefixHttps)
                 THEN StrDropPrefix(website, PrefixHttps)
                 ELSE StrDropPrefix(website, PrefixHttp)
           d2 == StrDropPrefix(d1, PrefixWww)
           d3 == StrBefore(d2, "/")
       IN StrBefore(d3, "?")

\* the ProcessedCompany built by processCompanies (the fields the core uses)
ProcessedCompany(company, summaryResult) ==
  [ companyName |-> company.CompanyName,
    domain |-> extractDomain(company.Website),
    originalDescription |-> company.Description,
    specialties |-> company.Specialties,
    aiSummary |-> summaryResult.summary,
    summaryQuality |-> summaryResult.quality,
    summaryRetries |-> summaryResult.retries ]

\* variant: results.unshift(processed)
PushResultFront(list, processed) == <<processed>> \o list

\* results.push(processed)
PushResult(list, processed) == Append(list, processed)

----------------------------------------------------------------------------
(* Inputs of processCompanies: rows and the generation service's answers *)

\* "https://www.a.co/x", "http://b.io?r"
WebsiteACo ==
  PrefixHttps \o PrefixWww \o <<"a", ".", "c", "o", "/", "x">>
WebsiteBIo == PrefixHttp \o <<"b", ".", "i", "o", "?", "r">>

RowAcme ==
  [ CompanyName |-> NameAcmeInc,
    Website |-> WebsiteACo,
    Specialties |-> SpecHvac,
    Description |-> <<Chunk("Acme", 4), Chunk("fill", 296)>> ]
RowBolt ==
  [ CompanyName |-> NameBoltCorp,
    Website |-> <<>>,
    Specialties |-> NoText,
    Description |-> NoText ]

RowPool == <<RowAcme, RowBolt>>

\* the row "Acme Widgets, Inc." with specialties "precision tooling, rapid
\* prototyping" and a description of 229 characters
NameAcmeWidgetsInc == <<Chunk("Acme Widgets", 12), Chunk(",", 1), Chunk(" Inc.", 5)>>
SpecTooling ==
  << Chunk("precision tooling", 17), Chunk(",", 1), Chunk(" ", 1),
     Chunk("rapid prototyping", 17) >>
RowWidgets ==
  [ CompanyName |-> NameAcmeWidgetsInc,
    Website |-> WebsiteBIo,
    Specialties |-> SpecTooling,
    Description |-> <<Chunk("Acme Widgets", 12), Chunk("fill", 217)>> ]

\* the candidate "Acme Widgets, Inc. manufactures custom widgets and precision
\* tooling for industrial clients, including rapid prototyping for automotive
\* and aerospace OEM partners." : the name, 33 characters, a specialty, 35
\* characters, a specialty, 42 characters
WidgetsCandidate ==
  NameAcmeWidgetsInc
    \o << Chunk("fill", 33), Chunk("precision tooling", 17), Chunk("fill", 35),
          Chunk("rapid prototyping", 17), Chunk("fill", 42), Chunk(".", 1) >>

\* the rows of the single-row sessions
SessionRows == {RowAcme, RowBolt, RowWidgets}

MaxRows == 2

\* the input batches: 1..MaxRows rows, taken in turn from the pool
Batches ==
  { [k \in 1..n |-> RowPool[((k + r) % Len(RowPool)) + 1]] :
      n \in 1..MaxRows, r \in 0..(Len(RowPool) - 1) }

Asterisks == <<Chunk("*", 1), Chunk("*", 1)>>
Quote == <<Chunk("Q", 1)>>

\* what one call to the generation service can settle with for this row
Responses(company) ==
  { [kind |-> "error", status |-> 429],
    [kind |-> "error", status |-> 529],
    [kind |-> "error", status |-> 500],
    [kind |-> "notext"],
    \* an ideal candidate, wrapped in quotes
    [kind |-> "text",
     text |-> Quote \o Candidate(company.CompanyName,
                                 <<Chunk("hvac", 4), Chunk(".", 1)>>, 220) \o Quote],
    \* an acceptable candidate of the minimum length, in bold markup
    [kind |-> "text",
     text |-> Asterisks \o Candidate(company.CompanyName, NoText, 180) \o Asterisks],
    \* a candidate that is too short and lacks the name
    [kind |-> "text", text |-> Candidate(<<Chunk("Fill", 9)>>, <<Chunk(".", 1)>>, 100)],
    \* markup only
    [kind |-> "text", text |-> Asterisks] }
  \cup (IF company = RowWidgets
        THEN {[kind |-> "text", text |-> WidgetsCandidate]}
        ELSE {})

\* the entries of rowLog: a call issued to the service, the answer a call
\* settled with, a sleep that has ended
NoResp == [kind |-> "none"]
CallEvent(type, rc) ==
  [ev |-> "call", type |-> type, rc |-> rc, ms |-> 0, resp |-> NoResp]
SettledEvent(rc, resp) ==
  [ev |-> "settled", type |-> "answer", rc |-> rc, ms |-> 0, resp |-> resp]
SleepEvent(rc, ms) ==
  [ev |-> "sleep", type |-> "sleep", rc |-> rc, ms |-> ms, resp |-> NoResp]

LogAppend(es) ==
  IF rowLog.on THEN [on |-> TRUE, events |-> rowLog.events \o es] ELSE rowLog

\* the call a settled outcome issues at once (the recursive invocation)
CallIssuedBy(outcome, rc) ==
  IF outcome.kind = "recurse" THEN <<CallEvent("initial", rc + 1)>> ELSE <<>>

InitQ0 == q = Idle

InitA ==
  /\ InitQ0
  /\ InitI0
  /\ InitB0
  /\ companies \in Batches
  /\ i = 1
  /\ pcA = "loop"
  /\ retryCount = 0
  /\ curSummary = NoText
  /\ results = <<>>
  /\ calls = 0
  /\ rowLog = [on |-> FALSE, events |-> <<>>]

\* processCompanies called with one row, its calls, answers and sleeps logged
InitG ==
  /\ InitQ0
  /\ InitI0
  /\ InitB0
  /\ companies \in { <<row>> : row \in SessionRows }
  /\ i = 1
  /\ pcA = "loop"
  /\ retryCount = 0
  /\ curSummary = NoText
  /\ results = <<>>
  /\ calls = 0
  /\ rowLog = [on |-> TRUE, events |-> <<>>]

\* generateCompanySummary reached a return: processCompanies pushes the record
\* and sleeps 500 ms
ReturnToLoop(summaryResult) ==
  /\ results' = PushResult(results, ProcessedCompany(companies[i], summaryResult))
  /\ pcA' = "rowSleep"
  /\ curSummary' = NoText
  /\ UNCHANGED <<retryCount, calls>>

\* what follows the settlement of a call, by the kind of outcome
Continue(outcome) ==
  CASE outcome.kind = "return" -> ReturnToLoop(outcome.result)
    [] outcome.kind = "refine" ->
         /\ pcA' = "sleepQuality"
         /\ curSummary' = outcome.summary
         /\ UNCHANGED <<retryCount, results, calls>>
    [] outcome.kind = "recurse" ->
         /\ pcA' = "call"
         /\ retryCount' = retryCount + 1
         /\ calls' = calls + 1
         /\ curSummary' = NoText
         /\ UNCHANGED results
    [] outcome.kind = "backoff" ->
         /\ pcA' = IF outcome.ms = 5000 THEN "backoff5s" ELSE "backoff10s"
         /\ curSummary' = NoText
         /\ UNCHANGED <<retryCount, results, calls>>
    [] outcome.kind = "throw" ->
         /\ pcA' = "raised"
         /\ UNCHANGED <<retryCount, curSummary, results, calls>>

\* processCompanies: loop test true; generateCompanySummary(company) builds the
\* prompt and issues the first call
StartRow ==
  /\ pcA = "loop"
  /\ i <= Len(companies)
  /\ pcA' = "call"
  /\ retryCount' = 0
  /\ calls' = 1
  /\ rowLog' = IF rowLog.on
               THEN [on |-> TRUE, events |-> <<CallEvent("initial", 0)>>]
               ELSE rowLog
  /\ UNCHANGED <<varsB, q, ini, companies, i, curSummary, results>>

\* processCompanies: loop test false; return results
ReturnResults ==
  /\ pcA = "loop"
  /\ i > Len(companies)
  /\ pcA' = "done"
  /\ UNCHANGED <<varsB, q, ini, companies, i, retryCount, curSummary, results, calls,
                 rowLog>>

\* the first call of the current invocation settles
InitialCallSettles ==
  /\ pcA = "call"
  /\ \E resp \in Responses(companies[i]) :
       /\ Continue(AfterInitialCall(companies[i], retryCount, resp))
       /\ rowLog' =
            LogAppend(<<SettledEvent(retryCount, resp)>>
                        \o CallIssuedBy(AfterInitialCall(companies[i], retryCount, resp),
                                        retryCount))
  /\ UNCHANGED <<varsB, q, ini, companies, i>>

\* sleep(1000) is over: the refinement call is issued
QualitySleepEnds ==
  /\ pcA = "sleepQuality"
  /\ pcA' = "refine"
  /\ calls' = calls + 1
  /\ rowLog' = LogAppend(<<SleepEvent(retryCount, 1000),
                           CallEvent("refinement", retryCount)>>)
  /\ UNCHANGED <<varsB, q, ini, companies, i, retryCount, curSummary, results>>

\* the refinement call settles
RefinementCallSettles ==
  /\ pcA = "refine"
  /\ \E resp \in Responses(companies[i]) :
       /\ Continue(AfterRefinementCall(companies[i], retryCount, resp))
       /\ rowLog' =
            LogAppend(<<SettledEvent(retryCount, resp)>>
                        \o CallIssuedBy(AfterRefinementCall(companies[i], retryCount, resp),
                                        retryCount))
  /\ UNCHANGED <<varsB, q, ini, companies, i>>

\* sleep(5000) / sleep(10000) is over: generateCompanySummary(company,
\* retryCount + 1) issues its first call
BackoffEnds ==
  /\ pcA \in {"backoff5s", "backoff10s"}
  /\ pcA' = "call"
  /\ retryCount' = retryCount + 1
  /\ calls' = calls + 1
  /\ rowLog' = LogAppend(<<SleepEvent(retryCount,
                                      IF pcA = "backoff5s" THEN 5000 ELSE 10000),
                           CallEvent("initial", retryCount + 1)>>)
  /\ UNCHANGED <<varsB, q, ini, companies, i, curSummary, results>>

\* sleep(500) is over: next loop iteration
RowSleepEnds ==
  /\ pcA = "rowSleep"
  /\ pcA' = "loop"
  /\ i' = i + 1
  /\ rowLog' = LogAppend(<<SleepEvent(retryCount, 500)>>)
  /\ UNCHANGED <<varsB, q, ini, companies, retryCount, curSummary, results, calls>>

NextA ==
  \/ StartRow
  \/ ReturnResults
  \/ InitialCallSettles
  \/ QualitySleepEnds
  \/ RefinementCallSettles
  \/ BackoffEnds
  \/ RowSleepEnds

SpecA == InitA /\ [][NextA]_vars

\* every timer fires and every call to the service settles
FairSpecA == SpecA /\ WF_vars(NextA)

\* one row, with the log of what generateCompanySummary did for it
SpecG == InitG /\ [][NextA]_vars

----------------------------------------------------------------------------
(* logo-fetcher.ts *)
(* Display names and lookup keys are character strings: sequences of       *)
(* one-character strings.  "U+0416" stands for one character outside       *)
(* Latin-1 (a Cyrillic capital letter).                                    *)

UpperLetters ==
  << "A", "B", "C", "D", "E", "F", "G", "H", "I", "J", "K", "L", "M",
     "N", "O", "P", "Q", "R", "S", "T", "U", "V", "W", "X", "Y", "Z" >>
LowerLetters ==
  << "a", "b", "c", "d", "e", "f", "g", "h", "i", "j", "k", "l", "m",
     "n", "o", "p", "q", "r", "s", "t", "u", "v", "w", "x", "y", "z" >>
Digits == {"0", "1", "2", "3", "4", "5", "6", "7", "8", "9"}

IsUpperLetter(c) == \E k \in 1..26 : UpperLetters[k] = c
IsLowerLetter(c) == \E k \in 1..26 : LowerLetters[k] = c

CharUpper(c) ==
  IF IsLowerLetter(c)
  THEN UpperLetters[CHOOSE k \in 1..26 : LowerLetters[k] = c]
  ELSE c
CharLower(c) ==
  IF IsUpperLetter(c)
  THEN LowerLetters[CHOOSE k \in 1..26 : UpperLetters[k] = c]
  ELSE c

\* toUpperCase of one character: the sharp s ("U+00DF", a Latin-1 character)
\* becomes the two characters "SS"
UpperOf(c) == IF c = "U+00DF" THEN <<"S", "S">> ELSE <<CharUpper(c)>>

RECURSIVE StrUpper(_)
StrUpper(s) == IF s = <<>> THEN <<>> ELSE UpperOf(s[1]) \o StrUpper(Tail(s))
StrLower(s) == [k \in 1..Len(s) |-> CharLower(s[k])]

\* \s and \w of the regular expressions
IsWhite(c) == c \in {" ", "\t"}
IsWordChar(c) == IsUpperLetter(c) \/ IsLowerLetter(c) \/ c \in Digits \/ c = "_"

\* btoa accepts only characters up to U+00FF
IsLatin1(c) == c # "U+0416"

RECURSIVE StrTrimLeft(_)
StrTrimLeft(s) == IF s # <<>> /\ IsWhite(s[1]) THEN StrTrimLeft(Tail(s)) ELSE s
RECURSIVE StrTrimRight(_)
StrTrimRight(s) ==
  IF s # <<>> /\ IsWhite(s[Len(s)])
  THEN StrTrimRight(SubSeq(s, 1, Len(s) - 1))
  ELSE s
StrTrim(s) == StrTrimRight(StrTrimLeft(s))

\* the alternatives of (Inc|LLC|Ltd|Corp|Corporation|Company|Co), in order
LegalSuffixes ==
  << <<"i", "n", "c">>,
     <<"l", "l", "c">>,
     <<"l", "t", "d">>,
     <<"c", "o", "r", "p">>,
     <<"c", "o", "r", "p", "o", "r", "a", "t", "i", "o", "n">>,
     <<"c", "o", "m", "p", "a", "n", "y">>,
     <<"c", "o">> >>

\* the suffix word (case-insensitive) stands at s[p..] and \b follows it
SuffixWordAt(s, p, word) ==
  /\ p + Len(word) - 1 <= Len(s)
  /\ StrLower(SubSeq(s, p, p + Len(word) - 1)) = word
  /\ (p + Len(word) <= Len(s) => ~IsWordChar(s[p + Len(word)]))

\* first index at or after p that holds no white space (Len(s) + 1 if none)
RECURSIVE SkipWhite(_, _)
SkipWhite(s, p) ==
  IF p <= Len(s) /\ IsWhite(s[p]) THEN SkipWhite(s, p + 1) ELSE p

\* /,?\s+(Inc|LLC|Ltd|Corp|Corporation|Company|Co)\b\.?/i matched at position
\* p: the index after the match, or 0 if there is no match at p
SuffixMatchEnd(s, p) ==
  LET p1 == IF p <= Len(s) /\ s[p] = "," THEN p + 1 ELSE p
      p2 == SkipWhite(s, p1)
  IN IF p2 = p1
     THEN 0
     ELSE IF \E k \in 1..Len(LegalSuffixes) : SuffixWordAt(s, p2, LegalSuffixes[k])
          THEN LET k == CHOOSE k \in 1..Len(LegalSuffixes) :
                          /\ SuffixWordAt(s, p2, LegalSuffixes[k])
                          /\ \A j \in 1..(k - 1) : ~SuffixWordAt(s, p2, LegalSuffixes[j])
                   p3 == p2 + Len(LegalSuffixes[k])
               IN IF p3 <= Len(s) /\ s[p3] = "." THEN p3 + 1 ELSE p3
          ELSE 0

\* companyName.replace(/.../gi, '') : every match removed, left to right
RECURSIVE RemoveSuffixes(_, _)
RemoveSuffixes(s, p) ==
  IF p > Len(s) THEN <<>>
  ELSE IF SuffixMatchEnd(s, p) > 0
       THEN RemoveSuffixes(s, SuffixMatchEnd(s, p))
       ELSE <<s[p]>> \o RemoveSuffixes(s, p + 1)

\* cleaned.split(/\s+/).filter(w => w.length > 0)
RECURSIVE Words(_)
Words(s) ==
  LET t == StrTrimLeft(s)
  IN IF t = <<>> THEN <<>>
     ELSE LET e == CHOOSE e \in 1..Len(t) :
                     /\ \A j \in 1..e : ~IsWhite(t[j])
                     /\ (e = Len(t) \/ IsWhite(t[e + 1]))
          IN <<SubSeq(t, 1, e)>> \o Words(SubSeq(t, e + 1, Len(t)))

StrSubstring02(s) == SubSeq(s, 1, IF Len(s) < 2 THEN Len(s) ELSE 2)

\* variant: the initials are taken without removing the legal suffixes
getCompanyInitialsKeepsSuffixes(companyName) ==
  IF companyName = <<>> \/ StrTrim(companyName) = <<>>
  THEN <<"?", "?">>
  ELSE LET cleaned == StrTrim(companyName)
           words == Words(cleaned)
       IN IF Len(words) = 0
          THEN StrUpper(StrSubstring02(companyName))
          ELSE IF Len(words) = 1
               THEN StrUpper(StrSubstring02(words[1]))
               ELSE StrUpper(<<words[1][1], words[2][1]>>)

getCompanyInitials(companyName) ==
  IF companyName = <<>> \/ StrTrim(companyName) = <<>>
  THEN <<"?", "?">>
  ELSE LET cleaned == StrTrim(RemoveSuffixes(companyName, 1))
           words == Words(cleaned)
       IN IF Len(words) = 0
          THEN StrUpper(StrSubstring02(companyName))
          ELSE IF Len(words) = 1
               THEN StrUpper(StrSubstring02(words[1]))
               ELSE StrUpper(<<words[1][1], words[2][1]>>)

\* variant: generateInitialsLogo without its try/catch; source "thrown" stands
\* for the exception leaving the function (and fetchCompanyLogo with it)
generateInitialsLogoThrows(companyName) ==
  LET initials == getCompanyInitials(companyName)
  IN IF \A k \in 1..Len(initials) : IsLatin1(initials[k])
     THEN [ success |-> TRUE, source |-> "initials",
            data |-> [image |-> "svg", of |-> initials] ]
     ELSE [ success |-> FALSE, source |-> "thrown",
            data |-> [image |-> "none", of |-> <<>>] ]

\* generateInitialsLogo: the SVG is built from the initials and btoa encodes
\* it; btoa throws on a character outside Latin-1 and the catch block then
\* returns the 'none' result
generateInitialsLogo(companyName) ==
  LET initials == getCompanyInitials(companyName)
  IN IF \A k \in 1..Len(initials) : IsLatin1(initials[k])
     THEN [ success |-> TRUE, source |-> "initials",
            data |-> [image |-> "svg", of |-> initials] ]
     ELSE [ success |-> FALSE, source |-> "none",
            data |-> [image |-> "none", of |-> <<>>] ]

\* the success results of fetchFromClearbit and fetchFromGoogleFavicon
RemoteLogo(source, domain) ==
  [success |-> TRUE, source |-> source, data |-> [image |-> source, of |-> domain]]

\* the result slot of an invocation that has not resolved yet
NoResult == [success |-> FALSE, source |-> "pending", data |-> [image |-> "none", of |-> <<>>]]

\* variant: the guard of fetchCompanyLogo without domain.trim()
FetchStartUntrimmed(item) ==
  IF item.domain = <<>>
  THEN [pc |-> "resolved", result |-> generateInitialsLogo(item.companyName)]
  ELSE [pc |-> "clearbit", result |-> NoResult]

\* fetchCompanyLogo up to its first await: without a lookup key the
\* placeholder is returned at once, otherwise the Clearbit request is issued
FetchStart(item) ==
  IF item.domain = <<>> \/ StrTrim(item.domain) = <<>>
  THEN [pc |-> "resolved", result |-> generateInitialsLogo(item.companyName)]
  ELSE [pc |-> "clearbit", result |-> NoResult]

\* variant: fetchCompanyLogo without its favicon tier
FetchStepSkipsFavicon(item, pc, ok) ==
  CASE pc = "clearbit" ->
         IF ok THEN [pc |-> "clearbitBody", result |-> NoResult]
         ELSE [pc |-> "resolved", result |-> generateInitialsLogo(item.companyName)]
    [] pc = "clearbitBody" ->
         IF ok THEN [pc |-> "resolved", result |-> RemoteLogo("clearbit", item.domain)]
         ELSE [pc |-> "resolved", result |-> generateInitialsLogo(item.companyName)]
    [] pc = "favicon" ->
         IF ok THEN [pc |-> "faviconBody", result |-> NoResult]
         ELSE [pc |-> "resolved", result |-> generateInitialsLogo(item.companyName)]
    [] pc = "faviconBody" ->
         IF ok THEN [pc |-> "resolved", result |-> RemoteLogo("favicon", item.domain)]
         ELSE [pc |-> "resolved", result |-> generateInitialsLogo(item.companyName)]

\* fetchCompanyLogo from one await to the next.  At "clearbit"/"favicon" the
\* response (headers) is awaited under the 2 s timeout; at "clearbitBody"/
\* "faviconBody" the body is read and encoded.  ok = FALSE covers an HTTP
\* error status, a network error, the abort on timeout, a failed encoding
\* and, for the favicon, a body under 100 bytes.
FetchStep(item, pc, ok) ==
  CASE pc = "clearbit" ->
         IF ok THEN [pc |-> "clearbitBody", result |-> NoResult]
         ELSE [pc |-> "favicon", result |-> NoResult]
    [] pc = "clearbitBody" ->
         IF ok THEN [pc |-> "resolved", result |-> RemoteLogo("clearbit", item.domain)]
         ELSE [pc |-> "favicon", result |-> NoResult]
    [] pc = "favicon" ->
         IF ok THEN [pc |-> "faviconBody", result |-> NoResult]
         ELSE [pc |-> "resolved", result |-> generateInitialsLogo(item.companyName)]
    [] pc = "faviconBody" ->
         IF ok THEN [pc |-> "resolved", result |-> RemoteLogo("favicon", item.domain)]
         ELSE [pc |-> "resolved", result |-> generateInitialsLogo(item.companyName)]

\* the remote tier an await belongs to
TierOf(pc) == IF pc \in {"clearbit", "clearbitBody"} THEN "clearbit" ELSE "favicon"

\* generateInitialsLogo was called and returned this result
SynthesisEvent(result) ==
  IF result.source \in {"clearbit", "favicon"}
  THEN <<>>
  ELSE <<[tier |-> "initials", ok |-> result.success]>>

\* the tiers that finish while fetchCompanyLogo runs up to its first await
FetchStartEvents(item) ==
  IF FetchStart(item).pc = "resolved"
  THEN SynthesisEvent(FetchStart(item).result)
  ELSE <<>>

\* the tiers that finish in one step of fetchCompanyLogo: the remote tier of
\* the await that settled (when it fails, or when its body was read), then the
\* synthesis if the step ran it
TierEvents(item, pc, ok) ==
  LET remote ==
        IF ~ok
        THEN <<[tier |-> TierOf(pc), ok |-> FALSE]>>
        ELSE IF pc \in {"clearbitBody", "faviconBody"}
             THEN <<[tier |-> TierOf(pc), ok |-> TRUE]>>
             ELSE <<>>
      next == FetchStep(item, pc, ok)
  IN remote \o (IF next.pc = "resolved" THEN SynthesisEvent(next.result) ELSE <<>>)

\* variant: queue.splice(0, concurrency + 1)
SpliceCountOneMore(list, n) ==
  IF n + 1 < 0 THEN 0 ELSE IF n + 1 > Len(list) THEN Len(list) ELSE n + 1

\* queue.splice(0, concurrency): the removed elements and what is left
SpliceCount(list, n) == IF n < 0 THEN 0 ELSE IF n > Len(list) THEN Len(list) ELSE n
SpliceTaken(list, n) == SubSeq(list, 1, SpliceCount(list, n))
SpliceLeft(list, n) == SubSeq(list, SpliceCount(list, n) + 1, Len(list))

\* variant: Promise.race in place of Promise.all
AnySettled(items) == \E k \in 1..Len(items) : fetchPc[items[k]] = "resolved"

\* variant: only the first promise of the window is awaited
FirstSettled(items) == IF items = <<>> THEN TRUE ELSE fetchPc[items[1]] = "resolved"

\* Promise.all(batch.map(...)) has settled: every invocation has resolved
AllSettled(items) == \A k \in 1..Len(items) : fetchPc[items[k]] = "resolved"

\* Promise.all rejects: an invocation of the window has thrown
AnyRejected(items) == \E k \in 1..Len(items) : fetchResult[items[k]].source = "thrown"

\* results.set(key, result) for each element of batchResults, in order
RECURSIVE StoreResults(_, _)
StoreResults(map, items) ==
  IF items = <<>> THEN map
  ELSE LET key == logoItems[items[1]].companyName
           result == fetchResult[items[1]]
           stored ==
             IF \E k \in 1..Len(map) : map[k].key = key
             THEN [k \in 1..Len(map) |->
                     IF map[k].key = key THEN [key |-> key, value |-> result] ELSE map[k]]
             ELSE Append(map, [key |-> key, value |-> result])
       IN StoreResults(stored, Tail(items))

\* variant: onProgress is called once per window, after the forEach
ProgressReportsPerWindow(done, items, total) ==
  IF items = <<>> THEN <<>> ELSE << <<done + Len(items), total>> >>

\* the onProgress(completed, companies.length) calls of batchResults.forEach:
\* one per stored result, after completed++
ProgressReports(done, items, total) ==
  [j \in 1..Len(items) |-> <<done + j, total>>]

\* logoResults.get(key): found = FALSE stands for undefined
MapGet(map, key) ==
  IF \E k \in 1..Len(map) : map[k].key = key
  THEN [found |-> TRUE, value |-> map[CHOOSE k \in 1..Len(map) : map[k].key = key].value]
  ELSE [found |-> FALSE, value |-> NoResult]

\* a record's logo field when it was never assigned
NoData == [image |-> "none", of |-> <<>>]

\* variant: the else branch of the merge is missing, logoSource is left as it was
MergeRecordLeavesUndefined(map, item) ==
  LET logoResult == MapGet(map, item.companyName)
  IN IF logoResult.found /\ logoResult.value.success
     THEN [ companyName |-> item.companyName, domain |-> item.domain,
            logo |-> logoResult.value.data, logoSource |-> logoResult.value.source ]
     ELSE [ companyName |-> item.companyName, domain |-> item.domain,
            logo |-> NoData, logoSource |-> "undefined" ]

\* processCompaniesAction, the body of processedCompanies.forEach: the record
\* of one company after its logo is attached
MergeRecord(map, item) ==
  LET logoResult == MapGet(map, item.companyName)
  IN IF logoResult.found /\ logoResult.value.success
     THEN [ companyName |-> item.companyName, domain |-> item.domain,
            logo |-> logoResult.value.data, logoSource |-> logoResult.value.source ]
     ELSE [ companyName |-> item.companyName, domain |-> item.domain,
            logo |-> NoData, logoSource |-> "none" ]

----------------------------------------------------------------------------
(* Inputs of batchFetchLogos *)

DomainACo == <<"a", ".", "c", "o">>
DomainBIo == <<"b", ".", "i", "o">>
DomainZRu == <<"z", ".", "r", "u">>
DomainAIo == <<"a", ".", "i", "o">>
DomainDCo == <<"w", "w", "w", ".", "d", ".", "c", "o">>
NameAcme == <<"A", "c", "m", "e", " ", "I", "n", "c", ".">>
NameBolt == <<"B", "o", "l", "t">>
NameZhuk == <<"U+0416", "u", "k">>
NameDelta == <<"D", "e", "l", "t", "a", " ", "C", "o">>
NameEcho == <<"E", "c", "h", "o">>
NameZhe == <<"U+0416">>
DomainBlank == <<" ", "\t">>

\* five items with a lookup key (two of them share a display name), then one
\* with an empty key and one with a key of white space only
ItemPool ==
  << [domain |-> DomainACo, companyName |-> NameAcme],
     [domain |-> DomainBIo, companyName |-> NameBolt],
     [domain |-> DomainZRu, companyName |-> NameZhuk],
     [domain |-> DomainAIo, companyName |-> NameAcme],
     [domain |-> DomainDCo, companyName |-> NameDelta],
     [domain |-> <<>>, companyName |-> NameEcho],
     [domain |-> DomainBlank, companyName |-> NameZhe] >>

MaxItems == 7
DEFAULT_CONCURRENCY == 5

\* the concurrency argument is any number: the default, a smaller window, and
\* two values that are not positive
Concurrencies == {-1, 0, 2, DEFAULT_CONCURRENCY}

\* batchFetchLogos called with a list of at most maxItems companies
InitBUpTo(maxItems) ==
  /\ InitQ0
  /\ InitI0
  /\ InitA0
  /\ \E n \in 1..maxItems :
       /\ logoItems = [k \in 1..n |-> ItemPool[((k - 1) % Len(ItemPool)) + 1]]
       /\ queue = [k \in 1..n |-> k]
       /\ fetchPc = [k \in 1..n |-> "queued"]
       /\ fetchResult = [k \in 1..n |-> NoResult]
       /\ windowOf = [k \in 1..n |-> 0]
       /\ tierLog = [k \in 1..n |-> <<>>]
  /\ merged = <<>>
  /\ concurrency \in Concurrencies
  /\ batch = <<>>
  /\ logoResults = <<>>
  /\ completed = 0
  /\ progress = <<>>
  /\ pcB = "loop"

InitB == InitBUpTo(MaxItems)

\* the shorter lists over which termination is examined
MaxFairItems == 3
InitBFair == InitBUpTo(MaxFairItems)

WindowsStarted ==
  IF \E k \in DOMAIN windowOf : windowOf[k] > 0
  THEN CHOOSE w \in 1..Len(windowOf) :
         /\ \E k \in DOMAIN windowOf : windowOf[k] = w
         /\ \A k \in DOMAIN windowOf : windowOf[k] <= w
  ELSE 0

\* while (queue.length > 0): splice the next window off the queue and start
\* fetchCompanyLogo for each of its items
StartWindow ==
  /\ pcB = "loop"
  /\ queue # <<>>
  /\ LET taken == SpliceTaken(queue, concurrency)
         isTaken(k) == \E j \in 1..Len(taken) : taken[j] = k
     IN /\ batch' = taken
        /\ queue' = SpliceLeft(queue, concurrency)
        /\ fetchPc' = [k \in DOMAIN fetchPc |->
                         IF isTaken(k) THEN FetchStart(logoItems[k]).pc ELSE fetchPc[k]]
        /\ fetchResult' = [k \in DOMAIN fetchResult |->
                             IF isTaken(k) THEN FetchStart(logoItems[k]).result
                             ELSE fetchResult[k]]
        /\ windowOf' = [k \in DOMAIN windowOf |->
                          IF isTaken(k) THEN WindowsStarted + 1 ELSE windowOf[k]]
        /\ tierLog' = [k \in DOMAIN tierLog |->
                         IF isTaken(k) THEN FetchStartEvents(logoItems[k]) ELSE tierLog[k]]
  /\ pcB' = "awaitAll"
  /\ UNCHANGED <<q, ini, varsA, logoItems, concurrency, logoResults, completed, progress,
                 merged>>

\* the queue is empty: return results
ReturnLogos ==
  /\ pcB = "loop"
  /\ queue = <<>>
  /\ pcB' = "done"
  /\ UNCHANGED <<q, ini, varsA, logoItems, concurrency, queue, batch, fetchPc, fetchResult,
                 logoResults, completed, progress, windowOf, tierLog, merged>>

\* processCompaniesAction after batchFetchLogos has returned: attach the logos
AttachLogos ==
  /\ pcB = "done"
  /\ merged' = [k \in 1..Len(logoItems) |-> MergeRecord(logoResults, logoItems[k])]
  /\ pcB' = "merged"
  /\ UNCHANGED <<q, ini, varsA, logoItems, concurrency, queue, batch, fetchPc, fetchResult,
                 logoResults, completed, progress, windowOf, tierLog>>

\* one await of one invocation settles
FetchAdvances(k, ok) ==
  /\ fetchPc[k] \in {"clearbit", "clearbitBody", "favicon", "faviconBody"}
  /\ fetchPc' = [fetchPc EXCEPT ![k] = FetchStep(logoItems[k], fetchPc[k], ok).pc]
  /\ fetchResult' =
       [fetchResult EXCEPT ![k] = FetchStep(logoItems[k], fetchPc[k], ok).result]
  /\ tierLog' = [tierLog EXCEPT ![k] = @ \o TierEvents(logoItems[k], fetchPc[k], ok)]
  /\ UNCHANGED <<q, ini, varsA, logoItems, concurrency, queue, batch, logoResults,
                 completed, progress, pcB, windowOf, merged>>

RequestSucceeds == \E k \in DOMAIN fetchPc : FetchAdvances(k, TRUE)
RequestFails == \E k \in DOMAIN fetchPc : FetchAdvances(k, FALSE)

\* Promise.all settles: the window's results are stored, one progress report
\* per item, and the 100 ms pause starts if the queue is not empty
\* (a rejection of Promise.all leaves batchFetchLogos as an exception)
WindowResolved ==
  /\ pcB = "awaitAll"
  /\ AllSettled(batch) \/ AnyRejected(batch)
  /\ IF AnyRejected(batch)
     THEN /\ pcB' = "raised"
          /\ UNCHANGED <<logoResults, completed, progress, batch>>
     ELSE /\ logoResults' = StoreResults(logoResults, batch)
          /\ completed' = completed + Len(batch)
          /\ progress' = progress \o ProgressReports(completed, batch, Len(logoItems))
          /\ batch' = <<>>
          /\ pcB' = IF queue # <<>> THEN "pause" ELSE "loop"
  /\ UNCHANGED <<q, ini, varsA, logoItems, concurrency, queue, fetchPc, fetchResult, windowOf,
                 tierLog, merged>>

\* the 100 ms pause is over
PauseEnds ==
  /\ pcB = "pause"
  /\ pcB' = "loop"
  /\ UNCHANGED <<q, ini, varsA, logoItems, concurrency, queue, batch, fetchPc, fetchResult,
                 logoResults, completed, progress, windowOf, tierLog, merged>>

NextB ==
  \/ StartWindow
  \/ ReturnLogos
  \/ AttachLogos
  \/ RequestSucceeds
  \/ RequestFails
  \/ WindowResolved
  \/ PauseEnds

SpecB == InitB /\ [][NextB]_vars

\* an await on response headers: fetchWithTimeout arms the 2 s abort timer
\* before fetch() and clears it in its finally block once the headers are in
HeadersSettle ==
  \E k \in DOMAIN fetchPc :
    /\ fetchPc[k] \in {"clearbit", "favicon"}
    /\ FetchAdvances(k, TRUE) \/ FetchAdvances(k, FALSE)

\* an await on a response body (response.blob(), then blobToBase64): no timer
\* is armed while it is pending
BodySettles ==
  \E k \in DOMAIN fetchPc :
    /\ fetchPc[k] \in {"clearbitBody", "faviconBody"}
    /\ FetchAdvances(k, TRUE) \/ FetchAdvances(k, FALSE)

\* the steps of batchFetchLogos and processCompaniesAction themselves
ControlStep ==
  \/ StartWindow
  \/ ReturnLogos
  \/ AttachLogos
  \/ WindowResolved
  \/ PauseEnds

\* every timer fires and the program's own steps are taken; a remote source
\* may leave a body unfinished for ever
TimedSpecB ==
  InitBFair /\ [][NextB]_vars /\ WF_vars(ControlStep) /\ WF_vars(HeadersSettle)

\* every individual fetch resolves as well
FairSpecB ==
  /\ InitBFair /\ [][NextB]_vars
  /\ WF_vars(ControlStep) /\ WF_vars(HeadersSettle) /\ WF_vars(BodySettles)

----------------------------------------------------------------------------
(* processCompaniesAction: processCompanies, then batchFetchLogos over the   *)
(* records it returned, then the merge                                       *)

\* the characters of one chunk of a company name
TokChars(t) ==
  CASE t = "Acme" -> <<"A", "c", "m", "e">>
    [] t = "Bolt" -> <<"B", "o", "l", "t">>
    [] t = "Acme Widgets" ->
         <<"A", "c", "m", "e", " ", "W", "i", "d", "g", "e", "t", "s">>
    [] t = "," -> <<",">>
    [] t = " Inc." -> <<" ", "I", "n", "c", ".">>
    [] t = " Corp" -> <<" ", "C", "o", "r", "p">>

\* the same string, character by character
RECURSIVE Spell(_)
Spell(text) == IF text = <<>> THEN <<>> ELSE TokChars(text[1].t) \o Spell(Tail(text))

\* processedCompanies.map(company => ({domain, companyName}))
LogoData(list) ==
  [k \in 1..Len(list) |->
     [domain |-> list[k].domain, companyName |-> Spell(list[k].companyName)]]

\* variant: the logo phase does not await processCompanies
SummariesUnderWay(pc) == pc \in {"rowSleep", "done"}

\* await processCompanies(sourceData) has resolved
SummariesReturned(pc) == pc = "done"

PipelineBatches == { <<RowAcme, RowBolt>>, <<RowBolt, RowWidgets>> }

InitP ==
  /\ InitQ0
  /\ InitI0
  /\ InitB0
  /\ companies \in PipelineBatches
  /\ i = 1
  /\ pcA = "loop"
  /\ retryCount = 0
  /\ curSummary = NoText
  /\ results = <<>>
  /\ calls = 0
  /\ rowLog = [on |-> FALSE, events |-> <<>>]

\* batchFetchLogos(logoData, 5, ...) is called: its queue is a copy of logoData
StartLogos ==
  /\ SummariesReturned(pcA)
  /\ pcB = "idle"
  /\ logoItems' = LogoData(results)
  /\ concurrency' = DEFAULT_CONCURRENCY
  /\ queue' = [k \in 1..Len(results) |-> k]
  /\ fetchPc' = [k \in 1..Len(results) |-> "queued"]
  /\ fetchResult' = [k \in 1..Len(results) |-> NoResult]
  /\ windowOf' = [k \in 1..Len(results) |-> 0]
  /\ tierLog' = [k \in 1..Len(results) |-> <<>>]
  /\ pcB' = "loop"
  /\ UNCHANGED <<q, ini, varsA, batch, logoResults, completed, progress, merged>>

\* with a window of 5 and the batches above the queue is empty after the first
\* window, so the 100 ms pause between windows does not occur
NextP ==
  \/ StartRow
  \/ ReturnResults
  \/ InitialCallSettles
  \/ QualitySleepEnds
  \/ RefinementCallSettles
  \/ BackoffEnds
  \/ RowSleepEnds
  \/ StartLogos
  \/ StartWindow
  \/ ReturnLogos
  \/ AttachLogos
  \/ RequestSucceeds
  \/ RequestFails
  \/ WindowResolved

SpecP == InitP /\ [][NextP]_vars

----------------------------------------------------------------------------
(* Inputs of getCompanyInitials: display names built from an optional        *)
(* leading blank, a first word, a second word and a legal suffix             *)

WordApple == <<"A", "p", "p", "l", "e">>
WordMicrosoft == <<"M", "i", "c", "r", "o", "s", "o", "f", "t">>
WordAcme == <<"A", "c", "m", "e">>
WordRentals == <<" ", "R", "e", "n", "t", "a", "l", "s">>
SuffixInc == <<" ", "I", "n", "c", ".">>
SuffixCorporation == <<" ", "C", "o", "r", "p", "o", "r", "a", "t", "i", "o", "n">>
SuffixLLC == <<",", " ", "L", "L", "C">>
SuffixCo == <<" ", "c", "o">>

DisplayNames ==
  { b \o f \o w \o x :
      b \in { <<>>, <<" ">> },
      f \in { <<>>, WordApple, WordMicrosoft, WordAcme, <<"A">>, <<"x", "9">>,
              <<"U+00DF", "a">>, <<"U+0416">> },
      w \in { <<>>, WordRentals, <<" ", "b">> },
      x \in { <<>>, SuffixInc, SuffixCorporation, SuffixLLC, SuffixCo } }

InitI ==
  /\ InitQ0
  /\ InitA0
  /\ InitB0
  /\ ini \in { [pc |-> "input", companyName |-> n] : n \in DisplayNames }

\* getCompanyInitials(companyName)
ComputeInitials ==
  /\ ini.pc = "input"
  /\ ini' = [ pc |-> "initials", companyName |-> ini.companyName,
              initials |-> getCompanyInitials(ini.companyName) ]
  /\ UNCHANGED <<q, varsA, varsB>>

\* generateInitialsLogo(companyName): the placeholder drawn around the token
SynthesizeLogo ==
  /\ ini.pc = "initials"
  /\ ini' = [ pc |-> "logo", companyName |-> ini.companyName,
              initials |-> ini.initials,
              logo |-> generateInitialsLogo(ini.companyName) ]
  /\ UNCHANGED <<q, varsA, varsB>>

NextI == ComputeInitials \/ SynthesizeLogo

SpecI == InitI /\ [][NextI]_vars

----------------------------------------------------------------------------
(* Properties of the quality evaluator (SpecQ) *)

QEvaluated == q.pc \in {"validated", "rated", "prompted"}
QLen == StrLen(q.summary)

C6_ExcellentIffAsClaimed ==
  q.pc = "rated" =>
    ( q.rating = "excellent" <=>
        /\ q.verdict.passed
        /\ QLen >= 200
        /\ QLen <= 250
        /\ q.verdict.hasCompanyName
        /\ ~q.verdict.hasGenericPhrases
        /\ (q.specialties # NoText => q.verdict.hasIndustryTerms)
        /\ q.verdict.isProperlyFormatted
        /\ ~q.verdict.isTruncated )

\* C7: a verdict that is not rated excellent is rated good when it passed, has
\* the required name and is not truncated, and needs_review otherwise; a
\* verdict that did not pass is always rated needs_review.
C7_GoodOrNeedsReview ==
  q.pc = "rated" =>
    /\ q.rating \in {"excellent", "good", "needs_review"}
    /\ q.rating # "excellent" =>
         q.rating = IF /\ q.verdict.passed
                       /\ q.verdict.hasCompanyName
                       /\ ~q.verdict.isTruncated
                    THEN "good"
                    ELSE "needs_review"
    /\ ~q.verdict.passed => q.rating = "needs_review"

\* C7 witness: a candidate that names the company and is not truncated but is
\* too long, hence not passed, is rated needs_review.
C7_Witness ==
  /\ q.pc = "rated"
  /\ ~q.verdict.passed
  /\ q.verdict.hasCompanyName
  /\ ~q.verdict.isTruncated
  /\ QLen = 281
  /\ q.rating = "needs_review"

----------------------------------------------------------------------------
(* Properties of the retry/refinement controller and the batch loop
   (SpecA, FairSpecA) *)

\* C1: the attempt counter of generateCompanySummary stays within 0..3 and the
\* retries value of every returned result (the record's retry count) is at
\* most 3, whatever the service answers.
C1_RetryCountBounded ==
  /\ retryCount \in 0..3
  /\ \A k \in 1..Len(results) : results[k].summaryRetries \in 0..3

\* C1 witness: after three back-offs the counter is 3, a call is in flight,
\* and an earlier row was finalized with a retry count of 3.
C1_Witness ==
  /\ pcA = "call"
  /\ retryCount = 3
  /\ Len(results) = 1
  /\ results[1].summaryRetries = 3

\* C2 (as claimed): the generation calls issued for one row (initial calls,
\* full restarts and refinement calls together) never exceed 3.
C2_AtMostThreeCallsAsClaimed == calls <= 3

\* C3: no exception leaves generateCompanySummary, the batch always runs to its
\* end, and it ends with exactly one record per input row.
C3_AlwaysReturnsOneRecordPerRow ==
  /\ [](pcA # "raised")
  /\ [](pcA = "done" => Len(results) = Len(companies))
  /\ <>(pcA = "done")

\* C3 witness: a two-row batch has ended; its first row fell back to the error
\* result after a non-retryable failure, and the second row still got a record.
C3_Witness ==
  /\ pcA = "done"
  /\ Len(companies) = 2
  /\ Len(results) = 2
  /\ results[1].aiSummary =
       Substring0(companies[1].Description, 150) \o <<Chunk("...", 3)>>
  /\ results[1].summaryRetries = 0
  /\ results[2].summaryQuality = "excellent"

\* C4 (as claimed): every record has a non-empty summary.
C4_SummaryNonEmptyAsClaimed ==
  \A k \in 1..Len(results) : StrLen(results[k].aiSummary) > 0

\* C8: the record at position k was built from input row k, and the returned
\* sequence has the length of the input.
C8_OrderPreserved ==
  /\ Len(results) <= Len(companies)
  /\ \A k \in 1..Len(results) :
       /\ results[k].companyName = companies[k].CompanyName
       /\ results[k].originalDescription = companies[k].Description
       /\ results[k].specialties = companies[k].Specialties
  /\ pcA = "done" => Len(results) = Len(companies)

\* C8 witness: a batch of two different rows has been returned, the first row
\* after retries and the second row without any.
C8_Witness ==
  /\ pcA = "done"
  /\ Len(results) = 2
  /\ companies[1] # companies[2]
  /\ results[1].summaryRetries = 3
  /\ results[2].summaryRetries = 0

----------------------------------------------------------------------------
(* Properties of batchFetchLogos (SpecB) *)

InFlight(k) == fetchPc[k] \in {"clearbit", "clearbitBody", "favicon", "faviconBody"}
InFlightCount == Cardinality({k \in DOMAIN fetchPc : InFlight(k)})

\* C9: the number of fetchCompanyLogo invocations that have started and not
\* yet resolved never exceeds the window size (5 as processCompaniesAction
\* calls it), for every length of the input list.
C9_InFlightWithinWindow ==
  concurrency >= 1 =>
    /\ InFlightCount <= concurrency
    /\ Len(batch) <= concurrency

\* C9 witness: with a window of 5 and a sixth item waiting in the queue, five
\* fetches are in flight at once.
C9_Witness ==
  /\ concurrency = 5
  /\ InFlightCount = 5
  /\ Len(queue) >= 1

\* C10: no item of a later window has started while an item of an earlier
\* window has not finished its whole fallback chain.
C10_WindowBarrier ==
  \A j \in DOMAIN fetchPc : \A k \in DOMAIN fetchPc :
    (windowOf[j] >= 1 /\ windowOf[k] > windowOf[j]) => fetchPc[j] = "resolved"

\* C10 witness: in the first window one item is still waiting for its first
\* response while a window-mate has already gone through the whole chain down
\* to the synthesized placeholder, and the sixth item has not started; later,
\* the second window runs.
C10_Witness ==
  /\ Len(logoItems) = 6
  /\ concurrency = 5
  /\ pcB = "awaitAll"
  /\ fetchPc[1] = "clearbit"
  /\ fetchPc[2] = "resolved"
  /\ fetchResult[2].source = "initials"
  /\ fetchPc[6] = "queued"
  /\ windowOf[6] = 0

----------------------------------------------------------------------------
(* Properties of the fetch tiers and of the merge (SpecB) *)

HasKey(k) == ~(logoItems[k].domain = <<>> \/ StrTrim(logoItems[k].domain) = <<>>)
TierFailed(t) == [tier |-> t, ok |-> FALSE]
TierOk(t) == [tier |-> t, ok |-> TRUE]

\* C11: for an item with a non-empty lookup key the tiers are tried in order:
\* the favicon source is contacted only after Clearbit has failed, the initials
\* placeholder is synthesized only after both remote tiers have failed, and the
\* result's source names the tier that succeeded, or none when the synthesis
\* failed.
C11_TiersInOrder ==
  \A k \in DOMAIN fetchPc :
    HasKey(k) =>
      /\ fetchPc[k] \in {"queued", "clearbit", "clearbitBody"} => tierLog[k] = <<>>
      /\ fetchPc[k] \in {"favicon", "faviconBody"} =>
           tierLog[k] = <<TierFailed("clearbit")>>
      /\ fetchPc[k] = "resolved" =>
           \/ /\ tierLog[k] = <<TierOk("clearbit")>>
              /\ fetchResult[k].success
              /\ fetchResult[k].source = "clearbit"
           \/ /\ tierLog[k] = <<TierFailed("clearbit"), TierOk("favicon")>>
              /\ fetchResult[k].success
              /\ fetchResult[k].source = "favicon"
           \/ /\ tierLog[k] =
                   <<TierFailed("clearbit"), TierFailed("favicon"), TierOk("initials")>>
              /\ fetchResult[k].success
              /\ fetchResult[k].source = "initials"
           \/ /\ tierLog[k] =
                   <<TierFailed("clearbit"), TierFailed("favicon"), TierFailed("initials")>>
              /\ ~fetchResult[k].success
              /\ fetchResult[k].source = "none"

\* C11 witness: of three items with a lookup key, one got its logo from the
\* favicon source after Clearbit failed, one got the initials placeholder and
\* one got nothing because the synthesis failed.
C11_Witness ==
  /\ Len(logoItems) >= 3
  /\ fetchPc[1] = "resolved" /\ fetchResult[1].source = "initials"
  /\ fetchPc[2] = "resolved" /\ fetchResult[2].source = "favicon"
  /\ fetchPc[3] = "resolved" /\ fetchResult[3].source = "none"
  /\ HasKey(1) /\ HasKey(2) /\ HasKey(3)

\* C12: after the merge every record has logoSource set to clearbit, favicon,
\* initials or none, and it has a logo exactly when logoSource is not none.
C12_ProvenanceSetAndConsistent ==
  pcB = "merged" =>
    /\ Len(merged) = Len(logoItems)
    /\ \A k \in 1..Len(merged) :
         /\ merged[k].logoSource \in {"clearbit", "favicon", "initials", "none"}
         /\ (merged[k].logo # NoData) <=> (merged[k].logoSource # "none")

\* C12 witness: a merged batch with a record without logo (source none) and a
\* record with a Clearbit logo.
C12_Witness ==
  /\ pcB = "merged"
  /\ \E k \in 1..Len(merged) : merged[k].logoSource = "none" /\ merged[k].logo = NoData
  /\ \E k \in 1..Len(merged) :
       merged[k].logoSource = "clearbit" /\ merged[k].logo.image = "clearbit"

\* C13 (as claimed): after the merge every record carries the result of the
\* fetch performed for its own (lookup key, display name) pair.
C13_OwnResultAsClaimed ==
  pcB = "merged" =>
    \A k \in 1..Len(merged) :
      /\ merged[k].logo = fetchResult[k].data
      /\ merged[k].logoSource = fetchResult[k].source

\* C14: no failure in a tier leaves fetchCompanyLogo or batchFetchLogos as an
\* exception; an item whose synthesis failed resolves with source none and no
\* payload; when batchFetchLogos returns, every item has been processed and
\* its result stored.
C14_FailuresIsolated ==
  /\ pcB # "raised"
  /\ \A k \in DOMAIN fetchResult : fetchResult[k].source # "thrown"
  /\ \A k \in DOMAIN fetchPc :
       (/\ fetchPc[k] = "resolved"
        /\ tierLog[k] # <<>>
        /\ tierLog[k][Len(tierLog[k])] = TierFailed("initials"))
       => fetchResult[k] = [success |-> FALSE, source |-> "none", data |-> NoData]
  /\ pcB \in {"done", "merged"} =>
       /\ completed = Len(logoItems)
       /\ \A k \in DOMAIN fetchPc :
            /\ fetchPc[k] = "resolved"
            /\ MapGet(logoResults, logoItems[k].companyName).found

\* C14 witness: batchFetchLogos has returned; the third item's synthesis
\* failed, its window-mate and an item of a later window have a stored logo.
C14_Witness ==
  /\ pcB = "done"
  /\ Len(logoItems) >= 5
  /\ fetchResult[3].source = "none"
  /\ windowOf[4] = windowOf[3] /\ windowOf[5] > windowOf[3]
  /\ fetchResult[4].success /\ fetchResult[5].success
  /\ MapGet(logoResults, logoItems[5].companyName).value = fetchResult[5]
  /\ MapGet(logoResults, logoItems[4].companyName).value = fetchResult[4]

----------------------------------------------------------------------------
(* Properties of one row's session (SpecG) *)

IsSettled(e) == e.ev = "settled"
IsSleep(e) == e.ev = "sleep"
IsCall(e) == e.ev = "call"
Answers == SelectSeq(rowLog.events, IsSettled)
Sleeps == SelectSeq(rowLog.events, IsSleep)

\* the record of the row has been pushed and the inter-row sleep has begun
RowFinalized == rowLog.on /\ pcA = "rowSleep" /\ Len(results) = 1

\* the candidate the answer carries, and its verdict for the row
CandidateOf(resp) == extractSummary(resp).summary
VerdictOf(resp) ==
  validateSummaryQuality(CandidateOf(resp), companies[1].CompanyName,
                         companies[1].Specialties)
IsPassing(resp) == ~ThrownBy(resp).thrown /\ VerdictOf(resp).passed
IsRejected(resp) == ~ThrownBy(resp).thrown /\ ~VerdictOf(resp).passed

FallbackSummary == Substring0(companies[1].Description, 150) \o <<Chunk("...", 3)>>

\* the service fails with the given status on attempts 0..k-1 and returns a
\* passing candidate on attempt k, and the row is finalized
BackoffScenario(status, k) ==
  /\ RowFinalized
  /\ Len(Answers) = k + 1
  /\ \A j \in 1..k :
       Answers[j].resp.kind = "error" /\ Answers[j].resp.status = status
  /\ IsPassing(Answers[k + 1].resp)

C16_PacedCallsAsClaimed ==
  \A a \in 1..Len(rowLog.events) :
    \A b \in (a + 1)..Len(rowLog.events) :
      (IsCall(rowLog.events[a]) /\ IsCall(rowLog.events[b])) =>
        \E c \in (a + 1)..(b - 1) : IsSleep(rowLog.events[c])

\* every answer of the finalized row was a candidate that failed the verdict
AllRejected ==
  /\ RowFinalized
  /\ Len(Answers) > 0
  /\ \A j \in 1..Len(Answers) : IsRejected(Answers[j].resp)

FinalError ==
  /\ rowLog.on
  /\ rowLog.events # <<>>
  /\ LET last == rowLog.events[Len(rowLog.events)]
     IN /\ IsSettled(last)
        /\ ThrownBy(last.resp).thrown
        /\ ~(ThrownBy(last.resp).error.status \in {429, 529} /\ last.rc < 3)

\* C18: when a call fails with an error other than 429/529, or with 429/529 at
\* retryCount 3, the row is finalized in the same step, with no further call or
\* sleep before it: summary = the first 150 characters of the description and
\* '...', quality needs_review, retries = the current retryCount.
C18_ErrorFallsBackAtOnce ==
  FinalError =>
    /\ pcA = "rowSleep"
    /\ Len(results) = 1
    /\ results[1].aiSummary = FallbackSummary
    /\ results[1].summaryQuality = "needs_review"
    /\ results[1].summaryRetries = rowLog.events[Len(rowLog.events)].rc
    /\ results[1].summaryRetries = retryCount

\* C18 witness: the refinement call of retryCount 1 fails with status 500.
C18_Witness ==
  /\ FinalError
  /\ Len(rowLog.events) >= 2
  /\ rowLog.events[Len(rowLog.events) - 1] = CallEvent("refinement", 1)
  /\ rowLog.events[Len(rowLog.events)].resp.kind = "error"
  /\ rowLog.events[Len(rowLog.events)].resp.status = 500
  /\ results[1].summaryRetries = 1
  /\ companies[1] = RowAcme

\* the first call for the row "Acme Widgets, Inc." has answered with the
\* candidate of the scenario
WidgetsFirstAnswer ==
  /\ rowLog.on
  /\ companies = <<RowWidgets>>
  /\ Len(Answers) >= 1
  /\ Answers[1].resp.kind = "text"
  /\ Answers[1].resp.text = WidgetsCandidate

----------------------------------------------------------------------------
(* Properties of the refinement prompt (SpecQ) *)

LacksName ==
  /\ ~Includes(ToLowerCase(q.summary), ToLowerCase(q.companyName))
  /\ ~Includes(ToLowerCase(q.summary), CompanyNameCore(q.companyName))
HasBannedPhrase ==
  \E k \in 1..Len(GENERIC_PHRASES) :
    IncludesTok(ToLowerCase(q.summary), GENERIC_PHRASES[k])

\* C20: for a candidate that lacks the company name and contains a banned
\* phrase the verdict does not pass, its issues hold the missing-name message
\* and the generic-phrases message, and the refinement prompt quotes the
\* candidate unchanged and holds the line that demands the full company name
\* and the line that demands the removal of generic phrases.
C20_MissingNameAndBannedPhrase ==
  (q.pc = "prompted" /\ LacksName /\ HasBannedPhrase) =>
    /\ ~q.verdict.passed
    /\ \E k \in 1..Len(q.verdict.issues) : q.verdict.issues[k] = IssueMissingName
    /\ \E k \in 1..Len(q.verdict.issues) :
         IssueIncludes(q.verdict.issues[k], <<"Contains", "generic", "phrases:">>)
    /\ q.prompt.original = q.summary
    /\ \E k \in 1..Len(q.prompt.problems) :
         q.prompt.problems[k] =
           Problem("Must include the full company name", q.companyName)
    /\ \E k \in 1..Len(q.prompt.problems) :
         q.prompt.problems[k].fix = "Remove generic marketing phrases"

\* C20 witness: a candidate of 200 characters without the name "Acme, Inc."
\* and with the phrase "leading provider"; its prompt has exactly the two lines.
C20_Witness ==
  /\ q.pc = "prompted"
  /\ LacksName
  /\ HasBannedPhrase
  /\ q.companyName = NameAcmeInc
  /\ QLen = 200
  /\ Len(q.prompt.problems) = 2

\* the PROBLEMS lines that answer a critical defect
CriticalFixes ==
  { "Must include the full company name",
    "Expand to at least 180 characters",
    "Shorten to maximum 280 characters",
    "Do not truncate" }

\* C29: a refinement prompt built for a verdict that did not pass has at
\* least one PROBLEMS line, and one of them is the name, expand-to-180,
\* shorten-to-280 or do-not-truncate instruction.
C29_FailedVerdictHasProblemLine ==
  (q.pc = "prompted" /\ ~q.verdict.passed) =>
    /\ q.prompt.problems # <<>>
    /\ \E k \in 1..Len(q.prompt.problems) : q.prompt.problems[k].fix \in CriticalFixes

\* C29 witness: a candidate of 200 characters that holds the company name,
\* no banned phrase and the row's domain term, and ends with an ellipsis: the
\* verdict fails on truncation alone and "Do not truncate" is one of the lines
\* of its prompt.
C29_Witness ==
  /\ q.pc = "prompted"
  /\ ~q.verdict.passed
  /\ QLen = 200
  /\ q.verdict.hasCompanyName
  /\ q.verdict.isTruncated
  /\ \A k \in 1..Len(q.prompt.problems) :
       q.prompt.problems[k].fix \in CriticalFixes => q.prompt.problems[k].fix = "Do not truncate"

----------------------------------------------------------------------------
(* Properties of one row's session (SpecG): the retry count of the record *)

\* the call whose answer finalized the row, and that answer
LastCall == rowLog.events[Len(rowLog.events) - 1]
LastAnswer == rowLog.events[Len(rowLog.events)]
FinalizedWithCandidate == RowFinalized /\ ~ThrownBy(LastAnswer.resp).thrown

\* the 1 s sleep or the refinement call of attempt k is in the log
RefinementStartedAt(k) ==
  \E e \in 1..Len(rowLog.events) :
    /\ rowLog.events[e].rc = k
    /\ \/ IsSleep(rowLog.events[e]) /\ rowLog.events[e].ms = 1000
       \/ IsCall(rowLog.events[e]) /\ rowLog.events[e].type = "refinement"

\* C24: a row finalized with a generated candidate carries that candidate and
\* a retry count equal to the attempts consumed: k when the candidate is the
\* answer to the initial call of attempt k (and if it passed, attempt k had
\* neither a 1 s sleep nor a refinement call), k + 1 when it is the answer to
\* the refinement call of attempt k.
C24_RetriesCountAttempts ==
  FinalizedWithCandidate =>
    /\ IsCall(LastCall)
    /\ results[1].aiSummary = CandidateOf(LastAnswer.resp)
    /\ LastCall.type = "initial" =>
         /\ results[1].summaryRetries = LastCall.rc
         /\ IsPassing(LastAnswer.resp) => ~RefinementStartedAt(LastCall.rc)
         /\ IsRejected(LastAnswer.resp) => LastCall.rc = MAX_RETRIES
    /\ LastCall.type = "refinement" =>
         /\ results[1].summaryRetries = LastCall.rc + 1
         /\ RefinementStartedAt(LastCall.rc)

\* C24 witness: the refined candidate of attempt 1 is finalized with retries
\* 2, after the initial candidate of attempt 0 and its refinement were rejected.
C24_Witness ==
  /\ FinalizedWithCandidate
  /\ LastCall.type = "refinement"
  /\ LastCall.rc = 1
  /\ results[1].summaryRetries = 2
  /\ IsPassing(LastAnswer.resp)
  /\ Len(Answers) = 4

----------------------------------------------------------------------------
(* Properties of the initials token (SpecI) *)

IniComputed == ini.pc \in {"initials", "logo"}

\* the display names of the three quoted examples and of further cases,
\* each with the token the statement's rule gives for it
InitialsExamples ==
  { <<WordApple \o SuffixInc, <<"A", "P">> >>,
    <<WordMicrosoft \o SuffixCorporation, <<"M", "I">> >>,
    <<WordAcme \o WordRentals, <<"A", "R">> >>,
    <<WordAcme \o WordRentals \o SuffixLLC, <<"A", "R">> >>,
    <<WordMicrosoft \o <<" ", "b">> \o SuffixCo, <<"M", "B">> >>,
    << <<" ">> \o WordApple, <<"A", "P">> >>,
    << <<"x", "9">> \o SuffixInc, <<"X", "9">> >>,
    << <<>>, <<"?", "?">> >> }

C27_TokenHasTwoCharactersAsClaimed ==
  IniComputed => Len(ini.initials) = 2

----------------------------------------------------------------------------
(* Properties of processCompaniesAction (SpecP) *)

CallInFlight == pcA \in {"call", "refine"}
RowUnderWay == pcA \in {"call", "sleepQuality", "refine", "backoff5s", "backoff10s"}
LogoPhaseStarted == pcB # "idle"

\* C23: a generation call for row i is in flight or pending only when the
\* records of rows 1..i-1, and no other, have been appended; the logo phase has
\* started only when processCompanies has returned with one finalized record
\* per row, its items are these records' (domain, name) pairs, and no
\* generation call is in flight or issued from then on.
C23_SummariesThenLogos ==
  /\ RowUnderWay =>
       /\ Len(results) = i - 1
       /\ i <= Len(companies)
       /\ calls >= 1
  /\ pcA = "rowSleep" => Len(results) = i
  /\ LogoPhaseStarted =>
       /\ pcA = "done"
       /\ ~CallInFlight
       /\ Len(results) = Len(companies)
       /\ logoItems = LogoData(results)
       /\ \A k \in 1..Len(results) :
            /\ results[k].companyName = companies[k].CompanyName
            /\ results[k].summaryQuality \in {"excellent", "good", "needs_review"}
  /\ ~LogoPhaseStarted => InFlightCount = 0 /\ logoItems = <<>>

\* C23 witness: both rows have their records, the second after a refinement,
\* and the logo fetch of the first is waiting for Clearbit while the second,
\* which has no web address, already has its placeholder.
C23_Witness ==
  /\ companies = <<RowAcme, RowBolt>>
  /\ pcA = "done"
  /\ pcB = "awaitAll"
  /\ results[2].summaryRetries >= 1
  /\ logoItems[1].domain = DomainACo
  /\ fetchPc[1] = "clearbit"
  /\ fetchPc[2] = "resolved"
  /\ fetchResult[2].source = "initials"

----------------------------------------------------------------------------
(* Properties of batchFetchLogos: termination, progress, the shared map *)

AllResolved == \A k \in DOMAIN fetchPc : fetchPc[k] = "resolved"
Returned == pcB \in {"done", "merged"}

\* the items of the windows that were started before item k's window
ItemsBefore(w) == {k \in DOMAIN windowOf : windowOf[k] >= 1 /\ windowOf[k] < w}
ItemsStarted == {k \in DOMAIN windowOf : windowOf[k] >= 1}

\* C22 (as claimed): with timers that fire, every item eventually obtains a
\* result and batchFetchLogos returns, even when a remote source sends its
\* response headers and then never finishes the body.
C22_StalledBodyAbandonedAsClaimed ==
  concurrency >= 1 => <>(AllResolved /\ Returned)

\* C25: while any fetch is in flight the results map holds exactly what the
\* earlier windows stored (nothing of the current window has been written),
\* and once a window's results are stored no fetch is in flight and no item of
\* a later window has started.
C25_MapWrittenBetweenWindows ==
  /\ InFlightCount > 0 =>
       /\ pcB = "awaitAll"
       /\ completed = Cardinality(ItemsBefore(WindowsStarted))
       /\ Len(progress) = completed
  /\ completed > 0 /\ pcB \in {"loop", "pause", "done", "merged"} =>
       /\ InFlightCount = 0
       /\ completed = Cardinality(ItemsStarted)
       /\ \A k \in ItemsStarted : fetchPc[k] = "resolved"

\* C25 witness: the second window of two is in flight, one of its fetches has
\* already resolved, and the map still holds only the two results of the first
\* window.
C25_Witness ==
  /\ Len(logoItems) = 4
  /\ concurrency = 2
  /\ pcB = "awaitAll"
  /\ windowOf[3] = 2
  /\ fetchPc[3] = "resolved"
  /\ InFlight(4)
  /\ completed = 2
  /\ Len(logoResults) = 2

\* C26: the progress callback is called with (1, N), (2, N), ... in this
\* order, never beyond (N, N), exactly N times by the time batchFetchLogos
\* returns, and the call for an item comes only when every item of its window
\* has resolved.
C26_ProgressCountsEachItemOnce ==
  /\ Len(progress) = completed
  /\ completed <= Len(logoItems)
  /\ \A j \in 1..Len(progress) :
       /\ progress[j] = <<j, Len(logoItems)>>
       /\ \A k \in DOMAIN windowOf :
            windowOf[k] = windowOf[j] => fetchPc[k] = "resolved"
  /\ Returned => Len(progress) = Len(logoItems)

\* C26 witness: seven items in windows of two: six calls have been made while
\* the seventh item waits in the queue; later all seven have been made.
C26_Witness ==
  /\ Len(logoItems) = 7
  /\ concurrency = 2
  /\ pcB = "pause"
  /\ Len(progress) = 6
  /\ progress[6] = <<6, 7>>
  /\ fetchPc[7] = "queued"

\* C28 (as claimed): when every individual fetch resolves, batchFetchLogos
\* returns, whatever integer the concurrency argument is.
C28_ReturnsForEveryWindowSizeAsClaimed == <>Returned

\* C30: an item whose lookup key is empty or only white space never waits on a
\* remote source: no remote tier appears in its history, and its result is
\* what generateInitialsLogo returns for its display name (provenance initials,
\* or none when the encoding raised).
C30_NoKeyNoRequest ==
  \A k \in DOMAIN logoItems :
    (logoItems[k].domain = <<>> \/ StrTrim(logoItems[k].domain) = <<>>) =>
      /\ ~InFlight(k)
      /\ \A e \in 1..Len(tierLog[k]) : tierLog[k][e].tier = "initials"
      /\ fetchPc[k] = "resolved" =>
           /\ fetchResult[k] = generateInitialsLogo(logoItems[k].companyName)
           /\ fetchResult[k].source \in {"initials", "none"}
           /\ Len(tierLog[k]) = 1

\* C30 witness: the item with the empty key has resolved to the placeholder
\* and the item with the blank key to 'none' (its initial cannot be encoded),
\* both without a request, while an item with a key went to the remote tiers.
C30_Witness ==
  /\ Len(logoItems) = 7
  /\ fetchPc[6] = "resolved" /\ fetchResult[6].source = "initials"
  /\ fetchResult[6].data.of = <<"E", "C">>
  /\ fetchPc[7] = "resolved" /\ fetchResult[7].source = "none"
  /\ tierLog[6] = <<[tier |-> "initials", ok |-> TRUE]>>
  /\ tierLog[7] = <<[tier |-> "initials", ok |-> FALSE]>>
  /\ \E k \in 1..5 : Len(tierLog[k]) >= 2

====
